---- MODULE Spec2Model ----
(***************************************************************************)
(* Correlated telemetry emission core of gitlab-nextjs-demo:               *)
(*   - trace-id resolver          (src/lib/logging.ts, src/lib/tracing.ts) *)
(*   - log emitter, local sink, remote push          (src/lib/logging.ts)  *)
(*   - span / logging wrappers  (src/lib/tracing.ts, logger-tracing.ts)    *)
(*   - sampler configuration (src/instrumentation.ts, src/unnamed/part_000)*)
(***************************************************************************)
EXTENDS Integers, Sequences, FiniteSets, TLC

(***************************************************************************)
(* JavaScript values.  A string is a sequence of one-character strings, so *)
(* that split, the hex test and the truthiness test work on characters.    *)
(* An object carries its own properties in m (key -> value).               *)
(***************************************************************************)
NoProps == [k \in {} |-> 0]

Undef == [t |-> "undefined", s |-> <<>>, m |-> NoProps]

Null == [t |-> "null", s |-> <<>>, m |-> NoProps]

Str(chars) == [t |-> "string", s |-> chars, m |-> NoProps]

Num(chars) == [t |-> "number", s |-> chars, m |-> NoProps]

Obj(props) == [t |-> "object", s |-> <<>>, m |-> props]

\* JavaScript truthiness (the operand test of ||, &&, if and !).
Truthy(v) ==
    CASE v.t = "string" -> v.s # <<>>
      [] v.t = "number" -> v.s # <<"0">>
      [] v.t = "object" -> TRUE
      [] OTHER -> FALSE

\* a || b
Or(a, b) == IF Truthy(a) THEN a ELSE b

\* v?.[k] : undefined for undefined/null, and for a primitive without the key
Get(v, k) == IF v.t = "object" /\ k \in DOMAIN v.m THEN v.m[k] ELSE Undef

\* { ...a, ...b } : own properties of b override those of a, also when undefined
Spread(a, b) ==
    [k \in (DOMAIN a) \cup (DOMAIN b) |-> IF k \in DOMAIN b THEN b[k] ELSE a[k]]

\* the own properties of an optional object argument ({ ...extra })
Props(v) == IF v.t = "object" THEN v.m ELSE NoProps

Rep(c, n) == [i \in 1..n |-> c]

Digit(n) == <<"0", "1", "2", "3", "4", "5", "6", "7", "8", "9">>[n + 1]

(***************************************************************************)
(* String helpers used by the resolver.                                    *)
(***************************************************************************)
HexChars ==
    {"0", "1", "2", "3", "4", "5", "6", "7", "8", "9",
     "a", "b", "c", "d", "e", "f", "A", "B", "C", "D", "E", "F"}

MinHexLen == 16

MaxHexLen == 32

\* /^[0-9a-f]{16,32}$/i.test(s)
IsHexId(s) ==
    /\ Len(s) >= MinHexLen
    /\ Len(s) <= MaxHexLen
    /\ \A i \in 1..Len(s) : s[i] \in HexChars

\* s.split('-') : the hyphen-delimited segments, in order
RECURSIVE SplitFrom(_, _, _)
SplitFrom(s, i, cur) ==
    IF i > Len(s) THEN <<cur>>
    ELSE IF s[i] = "-" THEN <<cur>> \o SplitFrom(s, i + 1, <<>>)
    ELSE SplitFrom(s, i + 1, Append(cur, s[i]))

Split(s) == SplitFrom(s, 1, <<>>)

\* k.toLowerCase() on the header names a carrier can hold
ToLowerCase(k) ==
    CASE k = "TraceId" -> "traceid"
      [] k = "X-Trace-Id" -> "x-trace-id"
      [] k = "X-B3-TraceId" -> "x-b3-traceid"
      [] k = "Traceparent" -> "traceparent"
      [] k = "B3" -> "b3"
      [] OTHER -> k

(***************************************************************************)
(* Ambient active span (OpenTelemetry context of the running async task).  *)
(*   kind = "none"   : no active span                                      *)
(*   kind = "span"   : an active span with the given trace id              *)
(*   kind = "throws" : the lookup itself fails                             *)
(***************************************************************************)
NoAmbient == [kind |-> "none", traceId |-> <<>>]

AmbientSpan(tid) == [kind |-> "span", traceId |-> tid]

AmbientThrows == [kind |-> "throws", traceId |-> <<>>]

\* tracing.ts getCurrentTraceId: the span's trace id, undefined on any failure
getCurrentTraceId(active) ==
    IF active.kind = "span" THEN Str(active.traceId) ELSE Undef

(***************************************************************************)
(* Trace-id resolver.                                                      *)
(***************************************************************************)
IsString(v) == v.t = "string"

\* const headers = extra.headers || extra.req?.headers
HeadersOf(extra) == Or(Get(extra, "headers"), Get(Get(extra, "req"), "headers"))

\* const fromHeaders = (k) => headers?.[k] || headers?.[k.toLowerCase()]
fromHeaders(headers, k) == Or(Get(headers, k), Get(headers, ToLowerCase(k)))

\* fromHeaders('traceid') || fromHeaders('x-trace-id') || fromHeaders('x-b3-traceid')
HeaderTraceId(headers) ==
    Or(fromHeaders(headers, "traceid"),
       Or(fromHeaders(headers, "x-trace-id"), fromHeaders(headers, "x-b3-traceid")))

FromTraceparent_lowerCaseOnly(extra, headers) ==
    LET traceparent == Or(Get(extra, "traceparent"), fromHeaders(headers, "traceparent"))
        parts == Split(traceparent.s)
    IN  IF /\ IsString(traceparent) /\ Len(parts) >= 2 /\ IsHexId(parts[2])
           /\ \A i \in 1..Len(parts[2]) : parts[2][i] \notin {"A", "B", "C", "D", "E", "F"}
        THEN Str(parts[2]) ELSE Undef

\* W3C traceparent: version-traceid-spanid-flags, second segment
FromTraceparent(extra, headers) ==
    LET traceparent == Or(Get(extra, "traceparent"), fromHeaders(headers, "traceparent"))
        parts == Split(traceparent.s)
    IN  IF IsString(traceparent) /\ Len(parts) >= 2 /\ IsHexId(parts[2])
        THEN Str(parts[2]) ELSE Undef

\* B3 single header: traceid-spanid-sampled, first segment
FromB3(extra, headers) ==
    LET b3 == Or(Get(extra, "b3"), fromHeaders(headers, "b3"))
        tid == Split(b3.s)[1]
    IN  IF IsString(b3) /\ tid # <<>> /\ IsHexId(tid) THEN Str(tid) ELSE Undef

\* the header sources, shared by both versions of the resolver
FromCarrierHeaders(extra) ==
    LET headers == HeadersOf(extra)
        hTraceId == HeaderTraceId(headers)
        tp == FromTraceparent(extra, headers)
    IN  IF IsString(hTraceId) /\ Truthy(hTraceId) THEN hTraceId
        ELSE IF tp # Undef THEN tp
        ELSE FromB3(extra, headers)

\* the outcome of a call that raised instead of returning a value
Raised == [t |-> "raised", s |-> <<>>, m |-> NoProps]

getTraceIdForLogging_lookupUnguarded(active, extra) ==
    IF active.kind = "throws" THEN Raised
    ELSE IF Truthy(getCurrentTraceId(active)) THEN getCurrentTraceId(active)
    ELSE IF ~Truthy(extra) THEN Undef
    ELSE IF IsString(Get(extra, "trace_id")) /\ Truthy(Get(extra, "trace_id"))
         THEN Get(extra, "trace_id")
    ELSE FromCarrierHeaders(extra)

getTraceIdForLogging_skipAmbient(active, extra) ==
    IF ~Truthy(extra) THEN Undef
    ELSE IF IsString(Get(extra, "trace_id")) /\ Truthy(Get(extra, "trace_id"))
         THEN Get(extra, "trace_id")
    ELSE IF Truthy(getCurrentTraceId(active)) THEN getCurrentTraceId(active)
    ELSE FromCarrierHeaders(extra)

\* logging.ts getTraceIdForLogging, final version (direct field trace_id only)
getTraceIdForLogging(active, extra) ==
    LET currentTraceId == getCurrentTraceId(active)
    IN  IF Truthy(currentTraceId) THEN currentTraceId
        ELSE IF ~Truthy(extra) THEN Undef
        ELSE IF IsString(Get(extra, "trace_id")) /\ Truthy(Get(extra, "trace_id"))
             THEN Get(extra, "trace_id")
        ELSE FromCarrierHeaders(extra)

\* logging.ts getTraceIdForLogging, earlier version (traceId, traceID, trace_id)
getTraceIdForLogging_v2(active, extra) ==
    LET currentTraceId == getCurrentTraceId(active)
    IN  IF Truthy(currentTraceId) THEN currentTraceId
        ELSE IF ~Truthy(extra) THEN Undef
        ELSE IF IsString(Get(extra, "traceId")) /\ Truthy(Get(extra, "traceId"))
             THEN Get(extra, "traceId")
        ELSE IF IsString(Get(extra, "traceID")) THEN Get(extra, "traceID")
        ELSE IF IsString(Get(extra, "trace_id")) THEN Get(extra, "trace_id")
        ELSE FromCarrierHeaders(extra)

(***************************************************************************)
(* Bounds of the model.                                                    *)
(***************************************************************************)
NumProcs == 1

MaxCalls == 2

MaxInvs == 2

MaxHandlers == 3

Procs == 1..NumProcs

\* the requests the server can hold: those every specification drives, and
\* at least the two that the specification of interleaved requests drives
Clients == Procs \cup {1, 2}

(***************************************************************************)
(* Sample data.                                                            *)
(***************************************************************************)
\* 32 hex characters; the ratio sampler accepts TidA and rejects TidB
TidA == Rep("0", 31) \o <<"1">>

TidB == Rep("f", 8) \o Rep("0", 24)

TraceIds == {TidA, TidB}

\* values of LOG_LEVEL (pino's level option)
LogLevels == {"debug", "info", "warn", "error", "silent"}

Error(name, message) ==
    Obj([name |-> Str(<<name>>), message |-> Str(<<message>>), stack |-> Str(<<"stack">>)])

ErrBoom == Error("Error", "boom")

(***************************************************************************)
(* Sampler.                                                                *)
(***************************************************************************)
HexVal(c) ==
    CASE c = "0" -> 0 [] c = "1" -> 1 [] c = "2" -> 2 [] c = "3" -> 3
      [] c = "4" -> 4 [] c = "5" -> 5 [] c = "6" -> 6 [] c = "7" -> 7
      [] c = "8" -> 8 [] c = "9" -> 9
      [] c \in {"a", "A"} -> 10 [] c \in {"b", "B"} -> 11
      [] c \in {"c", "C"} -> 12 [] c \in {"d", "D"} -> 13
      [] c \in {"e", "E"} -> 14 [] c \in {"f", "F"} -> 15

\* a ^ b on numbers below 16
RECURSIVE Xor(_, _)
Xor(a, b) ==
    IF a = 0 THEN b
    ELSE IF b = 0 THEN a
    ELSE (((a % 2) + (b % 2)) % 2) + (2 * Xor(a \div 2, b \div 2))

\* the four 8-digit words of the trace id xor-ed together, digit by digit
Accumulate(tid) ==
    [i \in 1..8 |->
        Xor(Xor(HexVal(tid[i]), HexVal(tid[8 + i])),
            Xor(HexVal(tid[16 + i]), HexVal(tid[24 + i])))]

\* floor(0.1 * 0xffffffff) = 0x19999999
UpperBound == <<1, 9, 9, 9, 9, 9, 9, 9>>

\* a < b on two 8-digit numbers
RECURSIVE DigitsLess(_, _, _)
DigitsLess(a, b, i) ==
    IF i > Len(a) THEN FALSE
    ELSE IF a[i] # b[i] THEN a[i] < b[i]
    ELSE DigitsLess(a, b, i + 1)

\* Math.random(), in tenths
RandomDraws == 0..9

RatioTenths == 1

\* part_000: shouldSample: () => Math.random() < 0.1
shouldSample_random(tid, draw) == draw < RatioTenths

\* instrumentation.ts: new TraceIdRatioBasedSampler(0.1)
shouldSample_ratio(tid, draw) == DigitsLess(Accumulate(tid), UpperBound, 1)

shouldSample(kind, tid, draw) ==
    IF kind = "random" THEN shouldSample_random(tid, draw)
    ELSE shouldSample_ratio(tid, draw)

(***************************************************************************)
(* State.                                                                  *)
(***************************************************************************)
VARIABLES
    LOG_LEVEL,      \* process.env.LOG_LEVEL || 'info'
    samplerKind,    \* "ratio" (instrumentation.ts) or "random" (part_000)
    spans,          \* every span started, in order
    samplerLog,     \* the sampler's answers: pairs <<trace id, result>>
    ctx,            \* per request: the stack of active spans (indexes into spans)
    phase,          \* per request: "idle", "running", "done"
    calls,          \* every log call made, in order
    buffer,         \* records queued in the write buffer of logging.ts's destination
    manualBuffer,   \* records queued in that of logger-tracing.ts's destination
    file,           \* records written to the log file
    requests,       \* HTTP requests issued to the remote endpoint
    rejections,     \* push promises that settled rejected
    stack,          \* per request: open wrapper invocations (indexes into invs)
    ret,            \* per request: completion of the innermost running body
    invs,           \* every wrapper invocation, in order
    rpc,            \* function checks: "in" before the call, then "out" or the function applied
    ambientIn,      \* function checks: ambient span
    extraIn,        \* function checks: the argument (carrier, fields, environment)
    resolved,       \* function checks: result of the final version
    resolvedV2,     \* function checks: result of the other version
    logDir,         \* file system: what the log directory's path names
    module,         \* logging.ts: "loading", "ready" or "failed" with the error raised
    db,             \* document store: the posts and users collections
    handlers        \* route handlers in progress and answered

vars ==
    <<LOG_LEVEL, samplerKind, spans, samplerLog, ctx, phase, calls, buffer,
      manualBuffer, file, requests, rejections, stack, ret, invs, rpc, ambientIn, extraIn, resolved,
      resolvedV2, logDir, module, db, handlers>>

configVars == <<LOG_LEVEL, samplerKind>>

spanVars == <<spans, samplerLog, ctx>>

logVars == <<calls, buffer, manualBuffer, requests>>

wrapVars == <<stack, ret, invs>>

resolverVars == <<rpc, ambientIn, extraIn, resolved, resolvedV2>>

appVars == <<logDir, module, db, handlers>>

NoCompletion == [k |-> "none", v |-> Undef]

Returned(v) == [k |-> "value", v |-> v]

Thrown(e) == [k |-> "throw", v |-> e]

\* the state of the telemetry core after start-up
InitState ==
    /\ spans = <<>>
    /\ samplerLog = {}
    /\ ctx = [p \in Clients |-> <<>>]
    /\ phase = [p \in Clients |-> "idle"]
    /\ calls = <<>>
    /\ buffer = <<>>
    /\ manualBuffer = <<>>
    /\ file = <<>>
    /\ requests = <<>>
    /\ rejections = {}
    /\ stack = [p \in Clients |-> <<>>]
    /\ ret = [p \in Clients |-> NoCompletion]
    /\ invs = <<>>

\* the application around the telemetry core, when it plays no part: the
\* module is loaded, its directory is there, no route handler runs
InitAppIdle ==
    /\ logDir = "directory"
    /\ module = "ready"
    /\ db = [posts |-> {}, users |-> {}]
    /\ handlers = <<>>

InitResolverIdle ==
    /\ rpc = "idle"
    /\ ambientIn = NoAmbient
    /\ extraIn = Undef
    /\ resolved = Undef
    /\ resolvedV2 = Undef

(***************************************************************************)
(* Spans and the ambient context.                                          *)
(***************************************************************************)
Active_processWide(p) ==
    IF spans = <<>> THEN NoAmbient ELSE AmbientSpan(spans[Len(spans)].traceId)

\* trace.getActiveSpan() of the request's async context
Active(p) ==
    IF ctx[p] = <<>> THEN NoAmbient
    ELSE AmbientSpan(spans[ctx[p][Len(ctx[p])]].traceId)

\* tracer.startActiveSpan: the provider asks the sampler, the span becomes active
startActiveSpan(p, tid, draw, owner) ==
    LET result == shouldSample(samplerKind, tid, draw)
    IN  /\ spans' = Append(spans, [traceId |-> tid, owner |-> owner, sampled |-> result,
                                   status |-> "unset", message |-> Undef, ended |-> 0])
        /\ samplerLog' = samplerLog \cup {<<tid, result>>}
        /\ ctx' = [ctx EXCEPT ![p] = Append(@, Len(spans) + 1)]

\* span.end(), and the callback's context is left
endActiveSpan(p) ==
    LET i == ctx[p][Len(ctx[p])]
    IN  /\ spans' = [spans EXCEPT ![i].ended = @ + 1]
        /\ ctx' = [ctx EXCEPT ![p] = SubSeq(@, 1, Len(@) - 1)]

(***************************************************************************)
(* Local sink: pino over a buffered, asynchronous destination.             *)
(***************************************************************************)
LevelValue(l) ==
    CASE l = "debug" -> 20
      [] l = "info" -> 30
      [] l = "warn" -> 40
      [] l = "error" -> 50
      [] OTHER -> 1000

\* pino({ level: LOG_LEVEL }): a level below the configured one is a no-op
isLevelEnabled(level) == LevelValue(level) >= LevelValue(LOG_LEVEL)

\* JSON serialisation: properties whose value is undefined are left out
RECURSIVE Json(_)
Json(v) ==
    IF v.t = "object"
    THEN Obj([k \in {j \in DOMAIN v.m : v.m[j].t # "undefined"} |-> Json(v.m[k])])
    ELSE v

pinoWrite_noLevel(buf, id, level, message, fields) ==
    Append(buf, [id |-> id, level |-> level, message |-> message,
                 fields |-> Json(Obj(fields)).m])

pinoWrite_prepend(buf, id, level, message, fields) ==
    IF isLevelEnabled(level)
    THEN <<[id |-> id, level |-> level, message |-> message,
            fields |-> Json(Obj(fields)).m]>> \o buf
    ELSE buf

\* logger[level](fields, message): one record is appended to the write buffer
pinoWrite(buf, id, level, message, fields) ==
    IF isLevelEnabled(level)
    THEN Append(buf, [id |-> id, level |-> level, message |-> message,
                      fields |-> Json(Obj(fields)).m])
    ELSE buf

\* pino.destination({ sync: false }): the oldest buffered record is written
Flush ==
    /\ buffer # <<>>
    /\ file' = Append(file, Head(buffer))
    /\ buffer' = Tail(buffer)
    /\ UNCHANGED <<configVars, spanVars, phase, calls, manualBuffer, requests, rejections,
                   wrapVars, resolverVars, appVars>>

(***************************************************************************)
(* Remote export channel.                                                  *)
(***************************************************************************)
LOKI_APP == "gitlab-nextjs-demo"

LOKI_ENV == "development"

LOKI_JOB == LOKI_APP

\* what the endpoint can do with a request
Outcomes == {"ok", "http500", "neterr", "timeout"}

\* axios.post rejects on a network error, a timeout and a non-2xx status
AxiosRejects(outcome) == outcome # "ok"

\* pushToLoki up to its await: labels and line are built, the request is issued
pushToLoki(reqs, id, level, message, fields) ==
    Append(reqs,
        [id |-> id,
         labels |-> [job |-> LOKI_JOB, level |-> level, app |-> LOKI_APP, env |-> LOKI_ENV],
         line |-> [message |-> message,
                   text |-> IF DOMAIN fields # {} THEN <<Json(Obj(fields)).m>> ELSE <<>>],
         state |-> "inflight"])

\* what became of the request: the awaited promise fulfils or rejects
Settled(outcome) == IF AxiosRejects(outcome) THEN "failed" ELSE "delivered"

pushToLoki_settle_retry(i, outcome) ==
    /\ requests' = IF AxiosRejects(outcome)
                   THEN Append([requests EXCEPT ![i].state = Settled(outcome)],
                               [requests[i] EXCEPT !.state = "inflight"])
                   ELSE [requests EXCEPT ![i].state = Settled(outcome)]
    /\ rejections' = rejections
    /\ UNCHANGED <<calls, buffer, manualBuffer>>

pushToLoki_settle_noCatch(i, outcome) ==
    /\ requests' = [requests EXCEPT ![i].state = Settled(outcome)]
    /\ rejections' = IF AxiosRejects(outcome) THEN rejections \cup {i} ELSE rejections
    /\ UNCHANGED <<calls, buffer, manualBuffer>>

\* pushToLoki after its await: a rejection is caught and dropped
pushToLoki_settle(i, outcome) ==
    /\ requests' = [requests EXCEPT ![i].state = Settled(outcome)]
    /\ rejections' = rejections
    /\ UNCHANGED <<calls, buffer, manualBuffer>>

\* the endpoint answers a request, or the 5 s timeout fires
Respond(i, outcome) ==
    /\ i \in 1..Len(requests)
    /\ requests[i].state = "inflight"
    /\ pushToLoki_settle(i, outcome)
    /\ UNCHANGED <<configVars, spanVars, phase, file, wrapVars, resolverVars, appVars>>

(***************************************************************************)
(* Log emitter.                                                            *)
(***************************************************************************)
ErrDetail(error) ==
    Obj([name |-> Get(error, "name"), message |-> Get(error, "message"),
         stack |-> Get(error, "stack")])

\* const baseFields = { trace_id: traceId, ...fields }; baseFields.error = {...}
BaseFields(traceId, fields, error) ==
    LET base == Spread([trace_id |-> traceId], Props(fields))
    IN  IF Truthy(error) THEN Spread(base, [error |-> ErrDetail(error)]) ELSE base

\* the context a log call runs in: the ambient span and its trace's sampling
\* decision (TRUE outside any trace)
NoContext == [active |-> NoAmbient, sampled |-> TRUE]

SpanContext(tid, sampled) == [active |-> AmbientSpan(tid), sampled |-> sampled]

logWithTrace_gated(c, level, message, fields, error, inv) ==
    LET traceId == getTraceIdForLogging(c.active, fields)
        baseFields == BaseFields(traceId, fields, error)
        id == Len(calls) + 1
    IN  /\ calls' = Append(calls, [inv |-> inv, level |-> level, message |-> message,
                                   fields |-> baseFields, error |-> error, context |-> c])
        /\ buffer' = pinoWrite(buffer, id, level, message, baseFields)
        /\ UNCHANGED manualBuffer
        /\ requests' = IF c.sampled
                       THEN pushToLoki(requests, id, level, message, baseFields)
                       ELSE requests

logWithTrace_awaitPush(c, level, message, fields, error, inv) ==
    LET traceId == getTraceIdForLogging(c.active, fields)
        baseFields == BaseFields(traceId, fields, error)
        id == Len(calls) + 1
    IN  /\ calls' = Append(calls, [inv |-> inv, level |-> level, message |-> message,
                                   fields |-> baseFields, error |-> error, context |-> c])
        /\ buffer' = pinoWrite(buffer, id, level, message, baseFields)
        /\ UNCHANGED manualBuffer
        /\ requests' = [pushToLoki(requests, id, level, message, baseFields)
                           EXCEPT ![Len(requests) + 1].state = "delivered"]

\* logging.ts logWithTrace: resolve, build, write locally, push remotely
logWithTrace(c, level, message, fields, error, inv) ==
    LET traceId == getTraceIdForLogging(c.active, fields)
        baseFields == BaseFields(traceId, fields, error)
        id == Len(calls) + 1
    IN  /\ calls' = Append(calls, [inv |-> inv, level |-> level, message |-> message,
                                   fields |-> baseFields, error |-> error, context |-> c])
        /\ buffer' = pinoWrite(buffer, id, level, message, baseFields)
        /\ UNCHANGED manualBuffer
        /\ requests' = pushToLoki(requests, id, level, message, baseFields)

\* the log object: error passes its Error, the other levels have none
log(c, level, message, error, extra, inv) ==
    logWithTrace(c, level, message, extra, IF level = "error" THEN error ELSE Undef, inv)

\* the arguments of the ad hoc log calls
LogInputs ==
    [level : {"debug", "info", "warn"}, extra : {Undef}, error : {Undef}]
    \cup [level : {"error"}, extra : {Undef}, error : {ErrBoom}]

\* the contexts an ad hoc log call can come from: outside any span, inside a
\* span of a sampled trace, inside a span of an unsampled trace
EmitContexts ==
    {NoContext} \cup {SpanContext(tid, shouldSample_ratio(tid, 0)) : tid \in TraceIds}

\* some caller logs through the log object
DirectLog ==
    /\ Len(calls) < MaxCalls
    /\ \E c \in EmitContexts, in \in LogInputs :
          log(c, in.level, <<"direct">>, in.error, in.extra, 0)
    /\ UNCHANGED <<configVars, spanVars, phase, file, rejections, wrapVars, resolverVars, appVars>>

(***************************************************************************)
(* Specification of the emitter: requests that log, the sink and the       *)
(* remote endpoint.                                                        *)
(***************************************************************************)
Init ==
    /\ LOG_LEVEL \in LogLevels
    /\ samplerKind = "ratio"
    /\ InitState
    /\ InitAppIdle
    /\ InitResolverIdle

Next ==
    \/ DirectLog
    \/ Flush
    \/ \E i \in 1..Len(requests), outcome \in Outcomes : Respond(i, outcome)

Spec == Init /\ [][Next]_vars

(***************************************************************************)
(* Requests, spans and wrappers.                                           *)
(***************************************************************************)
\* Math.random() is drawn only by the sampler of part_000
Draws == IF samplerKind = "random" THEN RandomDraws ELSE {0}

\* a new trace gets an id of its own: the one of request p ends in p's digit
NewTraceIds(p) == {Rep("0", 31) \o <<Digit(p)>>}

\* HttpInstrumentation: an incoming request gets a server span, unless ignored
Request(p) ==
    /\ phase[p] = "idle"
    /\ phase' = [phase EXCEPT ![p] = "running"]
    /\ \/ \E tid \in NewTraceIds(p), draw \in Draws : startActiveSpan(p, tid, draw, 0)
       \/ UNCHANGED spanVars
    /\ UNCHANGED <<configVars, logVars, file, rejections, wrapVars, resolverVars, appVars>>

\* the invocations request p has made so far
InvsOf(p) == {m \in 1..Len(invs) : invs[m].proc = p}

\* the handler's wrapper has settled and the response is sent: the server
\* span, if any, is ended
Finish(p) ==
    /\ phase[p] = "running"
    /\ stack[p] = <<>>
    /\ InvsOf(p) # {}
    /\ phase' = [phase EXCEPT ![p] = "done"]
    /\ IF ctx[p] # <<>> THEN endActiveSpan(p) /\ UNCHANGED samplerLog
       ELSE UNCHANGED spanVars
    /\ UNCHANGED <<configVars, logVars, file, rejections, wrapVars, resolverVars, appVars>>

\* the context of a log call made by request p
ContextOf(p) ==
    IF ctx[p] = <<>> THEN NoContext
    ELSE SpanContext(spans[ctx[p][Len(ctx[p])]].traceId, spans[ctx[p][Len(ctx[p])]].sampled)

\* the code of request p can make a call: it runs, and no completion is pending
Running(p) == phase[p] = "running" /\ ret[p].k = "none"

\* a route handler returns the result of one outermost wrapper; its body may
\* call further wrappers
CanEnter(p) ==
    /\ Running(p)
    /\ Len(invs) < MaxInvs
    /\ stack[p] = <<>> => InvsOf(p) = {}

Top(p) == stack[p][Len(stack[p])]

\* a route handler imports its wrappers from one library: logging.ts with
\* tracing.ts, or logger-tracing.ts
UsesLib(p, lib) == \A m \in InvsOf(p) : invs[m].lib = lib

\* the record kept of a wrapper invocation
Invocation(kind, lib, p, span, owns, logger) ==
    [kind |-> kind, lib |-> lib, proc |-> p, span |-> span, owns |-> owns,
     logger |-> logger, body |-> NoCompletion, out |-> NoCompletion]

\* `req_${Date.now()}_${Math.random()...}`: a fresh id per invocation
RequestId(n) == Str(Rep("r", n))

\* createRequestLogger(requestId, userId, traceId): the fields it binds
createRequestLogger(requestId, userId, traceId, active) ==
    [requestId |-> requestId, userId |-> userId,
     trace_id |-> Or(traceId, getCurrentTraceId(active))]

\* requestLogger.<level>(m, err, e) = log.<level>(m, err, { ...bound, ...e })
requestLoggerLog(p, bound, level, message, error, e, inv) ==
    log(ContextOf(p), level, message, error, Obj(Spread(bound, Props(e))), inv)

\* logger-tracing.ts logMessage: { ...fields }, trace_id when there is one,
\* the error's detail; written through the module's own pino and pushed
logMessage(level, message, fields, traceId, error, inv, c) ==
    LET traced == IF Truthy(traceId) THEN Spread(Props(fields), [trace_id |-> traceId])
                  ELSE Props(fields)
        data == IF Truthy(error) THEN Spread(traced, [error |-> ErrDetail(error)])
                ELSE traced
        id == Len(calls) + 1
    IN  /\ calls' = Append(calls, [inv |-> inv, level |-> level, message |-> message,
                                   fields |-> data, error |-> error, context |-> c])
        /\ manualBuffer' = pinoWrite(manualBuffer, id, level, message, data)
        /\ requests' = pushToLoki(requests, id, level, message, data)
        /\ UNCHANGED buffer

\* createManualLogger(traceId).<level>: only error passes an Error on
manualLoggerLog(p, traceId, level, message, error, fields, inv) ==
    logMessage(level, message, fields, traceId,
               IF level = "error" THEN error ELSE Undef, inv, ContextOf(p))

Operation == "op"

EnterWithLogging_silentStart(p) ==
    /\ CanEnter(p)
    /\ UsesLib(p, "logging")
    /\ LET n == Len(invs) + 1
           bound == createRequestLogger(RequestId(n), Undef, getCurrentTraceId(Active(p)),
                                        Active(p))
       IN  /\ invs' = Append(invs, Invocation("withLogging", "logging", p, 0, FALSE, bound))
           /\ stack' = [stack EXCEPT ![p] = Append(@, n)]
           /\ UNCHANGED logVars
    /\ UNCHANGED <<configVars, spanVars, phase, file, rejections, ret, resolverVars, appVars>>

EnterWithLogging_debug(p) ==
    /\ CanEnter(p)
    /\ UsesLib(p, "logging")
    /\ LET n == Len(invs) + 1
           bound == createRequestLogger(RequestId(n), Undef, getCurrentTraceId(Active(p)),
                                        Active(p))
       IN  /\ invs' = Append(invs, Invocation("withLogging", "logging", p, 0, FALSE, bound))
           /\ stack' = [stack EXCEPT ![p] = Append(@, n)]
           /\ requestLoggerLog(p, bound, "debug", <<"Starting ", Operation>>, Undef, Undef, n)
    /\ UNCHANGED <<configVars, spanVars, phase, file, rejections, ret, resolverVars, appVars>>

\* logging.ts withLogging up to the call of fn: logger bound, "Starting" logged
EnterWithLogging(p) ==
    /\ CanEnter(p)
    /\ UsesLib(p, "logging")
    /\ LET n == Len(invs) + 1
           bound == createRequestLogger(RequestId(n), Undef, getCurrentTraceId(Active(p)),
                                        Active(p))
       IN  /\ invs' = Append(invs, Invocation("withLogging", "logging", p, 0, FALSE, bound))
           /\ stack' = [stack EXCEPT ![p] = Append(@, n)]
           /\ requestLoggerLog(p, bound, "info", <<"Starting ", Operation>>, Undef, Undef, n)
    /\ UNCHANGED <<configVars, spanVars, phase, file, rejections, ret, resolverVars, appVars>>

\* logger-tracing.ts withLogging up to the call of fn: the active span's
\* trace id is bound, "Starting" logged
EnterManualWithLogging(p) ==
    /\ CanEnter(p)
    /\ UsesLib(p, "logger-tracing")
    /\ LET n == Len(invs) + 1
           traceId == getCurrentTraceId(Active(p))
       IN  /\ invs' = Append(invs, Invocation("withLogging", "logger-tracing", p, 0, FALSE,
                                              [traceId |-> traceId]))
           /\ stack' = [stack EXCEPT ![p] = Append(@, n)]
           /\ manualLoggerLog(p, traceId, "info", <<"Starting ", Operation>>, Undef, Undef, n)
    /\ UNCHANGED <<configVars, spanVars, phase, file, rejections, ret, resolverVars, appVars>>

\* what the wrapper hands to its caller, and what the caller's body is left with
Deliver(p, n, body, out) ==
    /\ invs' = [invs EXCEPT ![n].body = body, ![n].out = out]
    /\ stack' = [stack EXCEPT ![p] = SubSeq(@, 1, Len(@) - 1)]
    /\ ret' = [ret EXCEPT ![p] = IF Len(stack[p]) > 1 /\ out.k = "throw" THEN out
                                 ELSE NoCompletion]

\* the wrapper of the given library is the innermost one and its body settled
Settling(p, kind, lib) ==
    /\ stack[p] # <<>>
    /\ ret[p].k # "none"
    /\ invs[Top(p)].kind = kind
    /\ invs[Top(p)].lib = lib

withLoggingExit_swallow(p) ==
    /\ Settling(p, "withLogging", "logging")
    /\ LET n == Top(p)
           bound == invs[n].logger
       IN  /\ IF ret[p].k = "value"
              THEN requestLoggerLog(p, bound, "info", <<"Completed ", Operation>>,
                                    Undef, Undef, n)
              ELSE requestLoggerLog(p, bound, "error", <<"Failed ", Operation>>,
                                    ret[p].v, Undef, n)
           /\ Deliver(p, n, ret[p], Returned(Undef))
    /\ UNCHANGED <<configVars, spanVars, phase, file, rejections, resolverVars, appVars>>

\* logging.ts withLogging after fn settled: "Completed" and the result, or
\* "Failed" with the error, which is thrown again
ExitWithLogging(p) ==
    /\ Settling(p, "withLogging", "logging")
    /\ LET n == Top(p)
           bound == invs[n].logger
       IN  /\ IF ret[p].k = "value"
              THEN requestLoggerLog(p, bound, "info", <<"Completed ", Operation>>,
                                    Undef, Undef, n)
              ELSE requestLoggerLog(p, bound, "error", <<"Failed ", Operation>>,
                                    ret[p].v, Undef, n)
           /\ Deliver(p, n, ret[p], ret[p])
    /\ UNCHANGED <<configVars, spanVars, phase, file, rejections, resolverVars, appVars>>

\* logger-tracing.ts withLogging after fn settled
ExitManualWithLogging(p) ==
    /\ Settling(p, "withLogging", "logger-tracing")
    /\ LET n == Top(p)
           traceId == invs[n].logger.traceId
       IN  /\ IF ret[p].k = "value"
              THEN manualLoggerLog(p, traceId, "info", <<"Completed ", Operation>>,
                                   Undef, Undef, n)
              ELSE manualLoggerLog(p, traceId, "error", <<"Failed ", Operation>>,
                                   ret[p].v, Undef, n)
           /\ Deliver(p, n, ret[p], ret[p])
    /\ UNCHANGED <<configVars, spanVars, phase, file, rejections, resolverVars, appVars>>

\* a span started under an active span joins its trace; a root span gets a
\* trace id of its own
NewSpanTraceIds(p) ==
    IF ctx[p] = <<>> THEN NewTraceIds(p) ELSE {spans[ctx[p][Len(ctx[p])]].traceId}

\* tracing.ts createSpan up to the call of fn: always a span of its own
EnterCreateSpan(p) ==
    /\ CanEnter(p)
    /\ UsesLib(p, "logging")
    /\ LET n == Len(invs) + 1
       IN  /\ invs' = Append(invs, Invocation("createSpan", "logging", p, Len(spans) + 1,
                                              TRUE, NoProps))
           /\ stack' = [stack EXCEPT ![p] = Append(@, n)]
           /\ \E tid \in NewSpanTraceIds(p), draw \in Draws :
                 startActiveSpan(p, tid, draw, n)
    /\ UNCHANGED <<configVars, phase, logVars, file, rejections, ret, resolverVars, appVars>>

\* logger-tracing.ts createSpan up to the call of fn: the active span is
\* reused when there is one, otherwise a span of its own is started
EnterCreateSpanReuse(p) ==
    /\ CanEnter(p)
    /\ UsesLib(p, "logger-tracing")
    /\ LET n == Len(invs) + 1
           reuse == ctx[p] # <<>>
       IN  /\ invs' = Append(invs, Invocation("createSpan", "logger-tracing", p,
                                              IF reuse THEN ctx[p][Len(ctx[p])]
                                              ELSE Len(spans) + 1,
                                              ~reuse, NoProps))
           /\ stack' = [stack EXCEPT ![p] = Append(@, n)]
           /\ IF reuse THEN UNCHANGED spanVars
              ELSE \E tid \in NewTraceIds(p), draw \in Draws :
                      startActiveSpan(p, tid, draw, n)
    /\ UNCHANGED <<configVars, phase, logVars, file, rejections, ret, resolverVars, appVars>>

\* error.message of a thrown null or undefined: the catch block itself throws
TypeError == Error("TypeError", "Cannot read properties")

createSpanSettle_noFinally(sp, body) ==
    IF body.k = "value"
    THEN [span |-> [sp EXCEPT !.status = "ok", !.ended = @ + 1], out |-> body]
    ELSE IF body.v.t \in {"null", "undefined"}
    THEN [span |-> sp, out |-> Thrown(TypeError)]
    ELSE [span |-> [sp EXCEPT !.status = "error", !.message = Get(body.v, "message")],
          out |-> body]

\* createSpan's try / catch / finally around fn, for a span of its own:
\* status 1 and the result, or status 2 with error.message and the error
\* thrown again; span.end() in the finally block
createSpanSettle(sp, body) ==
    IF body.k = "value"
    THEN [span |-> [sp EXCEPT !.status = "ok", !.ended = @ + 1], out |-> body]
    ELSE IF body.v.t \in {"null", "undefined"}
    THEN [span |-> [sp EXCEPT !.ended = @ + 1], out |-> Thrown(TypeError)]
    ELSE [span |-> [sp EXCEPT !.status = "error", !.message = Get(body.v, "message"),
                              !.ended = @ + 1],
          out |-> body]

ExitCreateSpan_endReused(p) ==
    /\ stack[p] # <<>>
    /\ ret[p].k # "none"
    /\ invs[Top(p)].kind = "createSpan"
    /\ LET n == Top(p)
           i == invs[n].span
           r == createSpanSettle(spans[i], ret[p])
       IN  IF invs[n].owns
           THEN /\ spans' = [spans EXCEPT ![i] = r.span]
                /\ ctx' = [ctx EXCEPT ![p] = SubSeq(@, 1, Len(@) - 1)]
                /\ Deliver(p, n, ret[p], r.out)
           ELSE /\ spans' = [spans EXCEPT ![i].ended = @ + 1]
                /\ UNCHANGED ctx
                /\ Deliver(p, n, ret[p], ret[p])
    /\ UNCHANGED <<configVars, samplerLog, phase, logVars, file, rejections, resolverVars, appVars>>

\* createSpan after fn settled, in either library
ExitCreateSpan(p) ==
    /\ stack[p] # <<>>
    /\ ret[p].k # "none"
    /\ invs[Top(p)].kind = "createSpan"
    /\ LET n == Top(p)
           i == invs[n].span
           r == createSpanSettle(spans[i], ret[p])
       IN  IF invs[n].owns
           THEN /\ spans' = [spans EXCEPT ![i] = r.span]
                /\ ctx' = [ctx EXCEPT ![p] = SubSeq(@, 1, Len(@) - 1)]
                /\ Deliver(p, n, ret[p], r.out)
           ELSE /\ UNCHANGED <<spans, ctx>>
                /\ Deliver(p, n, ret[p], ret[p])
    /\ UNCHANGED <<configVars, samplerLog, phase, logVars, file, rejections, resolverVars, appVars>>

\* the bound logger of the innermost withLogging the body runs in, if any
RECURSIVE InnermostLogging(_, _)
InnermostLogging(st, i) ==
    IF i = 0 THEN 0
    ELSE IF invs[st[i]].kind = "withLogging" THEN st[i]
    ELSE InnermostLogging(st, i - 1)

BodyLogInputs == {[level |-> "info", extra |-> Undef, error |-> Undef]}

\* the body of a wrapper logs. With logging.ts: through the bound logger
\* inside withLogging, through the log object otherwise. With
\* logger-tracing.ts: through the logger withLogging passed, or through
\* createManualLogger(traceId) inside createSpan
BodyLog(p) ==
    LET n == Top(p)
        w == InnermostLogging(stack[p], Len(stack[p]))
    IN  \E in \in BodyLogInputs :
          IF invs[n].lib = "logger-tracing"
          THEN manualLoggerLog(p, IF invs[n].kind = "withLogging"
                                  THEN invs[n].logger.traceId
                                  ELSE Str(spans[invs[n].span].traceId),
                               in.level, <<"body">>, in.error, in.extra, 0)
          ELSE IF w # 0
          THEN requestLoggerLog(p, invs[w].logger, in.level, <<"body">>, in.error,
                                in.extra, 0)
          ELSE log(ContextOf(p), in.level, <<"body">>, in.error, in.extra, 0)

BodyValues == {Num(<<"7">>)}

BodyErrors == {ErrBoom, Null}

\* the body of the innermost wrapper logs, then resolves with a value
BodyReturn(p) ==
    /\ Running(p)
    /\ stack[p] # <<>>
    /\ \E v \in BodyValues : ret' = [ret EXCEPT ![p] = Returned(v)]
    /\ BodyLog(p)
    /\ UNCHANGED <<configVars, spanVars, phase, file, rejections, stack, invs,
                   resolverVars, appVars>>

\* the body of the innermost wrapper throws
BodyThrow(p) ==
    /\ Running(p)
    /\ stack[p] # <<>>
    /\ \E e \in BodyErrors : ret' = [ret EXCEPT ![p] = Thrown(e)]
    /\ UNCHANGED <<configVars, spanVars, phase, logVars, file, rejections, stack, invs,
                   resolverVars, appVars>>

InitWrap ==
    /\ LOG_LEVEL = "info"
    /\ samplerKind = "ratio"
    /\ InitState
    /\ InitAppIdle
    /\ InitResolverIdle

NextWrap ==
    \E p \in Procs :
        \/ Request(p)
        \/ EnterWithLogging(p)
        \/ EnterManualWithLogging(p)
        \/ EnterCreateSpan(p)
        \/ EnterCreateSpanReuse(p)
        \/ BodyReturn(p)
        \/ BodyThrow(p)
        \/ ExitWithLogging(p)
        \/ ExitManualWithLogging(p)
        \/ ExitCreateSpan(p)
        \/ Finish(p)

SpecWrap == InitWrap /\ [][NextWrap]_vars

(***************************************************************************)
(* Specification of the sampler: the same requests under either of the     *)
(* two sampler configurations of the repository.                           *)
(***************************************************************************)
SamplerKinds == {"ratio", "random"}

InitSampler ==
    /\ LOG_LEVEL = "info"
    /\ samplerKind \in SamplerKinds
    /\ InitState
    /\ InitAppIdle
    /\ InitResolverIdle

SpecSampler == InitSampler /\ [][NextWrap]_vars

\* C9 as claimed: any two answers of the sampler for one trace id are the same
C9_DecisionSticky_AsClaimed ==
    \A a, b \in samplerLog : a[1] = b[1] => a[2] = b[2]

\* C9 for the sampler of instrumentation.ts alone, where it does hold
C9_RatioSamplerSticky ==
    samplerKind = "ratio" => C9_DecisionSticky_AsClaimed

(***************************************************************************)
(* Specification of one calling operation and the remote endpoint: the     *)
(* wrappers of SpecWrap for one request, while the endpoint answers its    *)
(* first MaxCalls pushes at any time, or never.                            *)
(***************************************************************************)
\* the request whose log calls are followed
Caller == 1

RespondToCaller ==
    \E i \in 1..Len(requests), outcome \in Outcomes : i <= MaxCalls /\ Respond(i, outcome)

NextPush ==
    \/ Request(Caller)
    \/ EnterWithLogging(Caller)
    \/ EnterManualWithLogging(Caller)
    \/ EnterCreateSpan(Caller)
    \/ EnterCreateSpanReuse(Caller)
    \/ BodyReturn(Caller)
    \/ BodyThrow(Caller)
    \/ ExitWithLogging(Caller)
    \/ ExitManualWithLogging(Caller)
    \/ ExitCreateSpan(Caller)
    \/ Finish(Caller)
    \/ RespondToCaller

SpecPush == InitWrap /\ [][NextPush]_vars

\* the requests issued for the log calls a wrapper invocation made itself
LifecycleRequests(n) ==
    {r \in 1..Len(requests) : calls[requests[r].id].inv = n}

\* C11: a log call returns with its push still in flight, and no step of the
\* calling operation (a log call, a wrapper entered or settled, the response
\* sent) waits for or changes the state of a request issued earlier
C11_PushNotAwaited ==
    [][/\ \A r \in 1..Len(requests') :
             r > Len(requests) => requests'[r].state = "inflight"
       /\ (calls' # calls \/ invs' # invs \/ phase' # phase) =>
             \A r \in 1..Len(requests) : requests'[r] = requests[r]]_vars

\* a withLogging invocation has settled and the response is sent while every
\* push of its lifecycle events is still in flight and another push has failed
C11_Witness ==
    /\ phase[Caller] = "done"
    /\ \E n \in 1..Len(invs) :
          /\ invs[n].kind = "withLogging"
          /\ invs[n].out.k # "none"
          /\ LifecycleRequests(n) # {}
          /\ \A r \in LifecycleRequests(n) : requests[r].state = "inflight"
    /\ \E r \in 1..Len(requests) : requests[r].state = "failed"

(***************************************************************************)
(* Properties of the wrappers.                                             *)
(***************************************************************************)
OwnSpanInvs == {n \in 1..Len(invs) : invs[n].kind = "createSpan" /\ invs[n].owns}

WithLoggingInvs == {n \in 1..Len(invs) : invs[n].kind = "withLogging"}

\* the lifecycle events of invocation n: the log calls the wrapper itself made
LifecycleEvents(n) == {i \in 1..Len(calls) : calls[i].inv = n}

ErrorEvents(n) == {i \in LifecycleEvents(n) : calls[i].level = "error"}

IsErrorObject(v) == v.t = "object" /\ "message" \in DOMAIN v.m

\* C2: when the body of withLogging (either library) threw E, the invocation
\* has exactly one error-level event, it is "Failed <operation>", it carries
\* E's message when E is an Error, and the wrapper rejects with E itself
C2_FailureLoggedAndRethrown ==
    \A n \in WithLoggingInvs :
        invs[n].body.k = "throw" =>
            /\ invs[n].out = invs[n].body
            /\ Cardinality(ErrorEvents(n)) = 1
            /\ \A i \in ErrorEvents(n) :
                  /\ calls[i].message = <<"Failed ", Operation>>
                  /\ IsErrorObject(invs[n].body.v) =>
                        /\ "error" \in DOMAIN calls[i].fields
                        /\ Get(calls[i].fields["error"], "message")
                              = Get(invs[n].body.v, "message")

\* a withLogging of logging.ts whose body, a createSpan, threw Error("boom")
C2_Witness ==
    \E n \in WithLoggingInvs, m \in OwnSpanInvs :
        /\ invs[n].lib = "logging"
        /\ n < m
        /\ invs[m].out = Thrown(ErrBoom)
        /\ invs[n].body = Thrown(ErrBoom)
        /\ invs[n].out.k = "throw"
        /\ ErrorEvents(n) # {}

\* C3: when the body of withLogging (either library) resolved with V, the
\* invocation has exactly two lifecycle events, both info-level, "Starting
\* <operation>" then "Completed <operation>", none at error level, and the
\* wrapper resolves with V
C3_SuccessLoggedAndReturned ==
    \A n \in WithLoggingInvs :
        invs[n].body.k = "value" =>
            /\ invs[n].out = invs[n].body
            /\ \E i, j \in LifecycleEvents(n) :
                  /\ i < j
                  /\ LifecycleEvents(n) = {i, j}
                  /\ calls[i].level = "info"
                  /\ calls[i].message = <<"Starting ", Operation>>
                  /\ calls[j].level = "info"
                  /\ calls[j].message = <<"Completed ", Operation>>

\* a withLogging of logger-tracing.ts whose body logged and resolved
C3_Witness ==
    /\ \E n \in WithLoggingInvs :
          /\ invs[n].lib = "logger-tracing"
          /\ invs[n].body \in {Returned(v) : v \in BodyValues}
          /\ invs[n].out.k = "value"
          /\ Cardinality(LifecycleEvents(n)) = 2
    /\ \E i \in 1..Len(calls) : calls[i].message = <<"body">>

\* C4: the span a createSpan (either library) opened itself has been ended
\* once when the invocation has settled, by a result or by a throw, and not
\* at all before
C4_OwnSpanEndedOnce ==
    \A n \in OwnSpanInvs :
        spans[invs[n].span].ended = IF invs[n].out.k = "none" THEN 0 ELSE 1

\* one createSpan with its own span returned and another one threw
C4_Witness ==
    \E n, m \in OwnSpanInvs :
        /\ invs[n].out.k = "value"
        /\ invs[m].out.k = "throw"
        /\ spans[invs[n].span].ended = 1
        /\ spans[invs[m].span].ended = 1

(***************************************************************************)
(* Properties of the emitter, the local sink and the remote channel.       *)
(***************************************************************************)
\* the records of the local sink, written or still queued, oldest first
LocalRecords == file \o buffer

LocalOf(id) == {i \in 1..Len(LocalRecords) : LocalRecords[i].id = id}

RequestsOf(id) == {i \in 1..Len(requests) : requests[i].id = id}

FailedRequests == {i \in 1..Len(requests) : requests[i].state = "failed"}

\* C5 as claimed: whenever the push of a log call failed, the call's record is
\* in the local sink and no rejected promise reached the caller.
C5_FailureIsolated_AsClaimed ==
    \A i \in FailedRequests : LocalOf(requests[i].id) # {} /\ rejections = {}

\* C5 amended: whenever the push of a log call failed, no rejected promise
\* reached the caller, and the call's record is in the local sink exactly when
\* the call's level is at or above the configured log level.
C5_FailureIsolated ==
    \A i \in FailedRequests :
        /\ rejections = {}
        /\ (LocalOf(requests[i].id) # {}) = isLevelEnabled(calls[requests[i].id].level)

C5_Witness ==
    \E i \in FailedRequests :
        /\ calls[requests[i].id].level = "error"
        /\ LocalOf(requests[i].id) # {}

\* a step in which the request of a log call fails or times out
PushFails == \E i \in 1..Len(requests) :
    requests[i].state = "inflight" /\ requests'[i].state = "failed"

\* C6: a log call has at most one request to the remote endpoint, and the step
\* in which a request fails issues no further request and makes no log record.
C6_NoRetryNoFeedback ==
    /\ [](\A id \in 1..Len(calls) : Cardinality(RequestsOf(id)) <= 1)
    /\ [][PushFails => (Len(requests') = Len(requests) /\ calls' = calls
                         /\ buffer' = buffer)]_vars

C6_Witness ==
    \E i \in FailedRequests : Cardinality(RequestsOf(requests[i].id)) = 1

\* C7 as claimed: every log call has a record in the local sink.
C7_AlwaysLocal_AsClaimed ==
    \A id \in 1..Len(calls) : LocalOf(id) # {}

\* C7 amended: a log call has exactly one record in the local sink when its
\* level is at or above the configured log level and none otherwise, and it is
\* handed to the remote channel in both cases.
C7_LocalIffLevelEnabled ==
    \A id \in 1..Len(calls) :
        /\ Cardinality(LocalOf(id)) = IF isLevelEnabled(calls[id].level) THEN 1 ELSE 0
        /\ RequestsOf(id) # {}

C7_Witness ==
    /\ LOG_LEVEL = "info"
    /\ \E a, b \in 1..Len(calls) :
          /\ calls[a].level = "debug" /\ LocalOf(a) = {} /\ RequestsOf(a) # {}
          /\ calls[b].level = "warn" /\ LocalOf(b) # {}

\* C8 as claimed: a request to the remote endpoint is only made for a log call
\* outside any trace or in a trace whose sampling decision is true.
C8_SampledOnly_AsClaimed ==
    \A i \in 1..Len(requests) : calls[requests[i].id].context.sampled

\* C8 amended: every log call is handed to the remote channel, whether it
\* runs outside any trace, in a sampled trace or in an unsampled trace.
C8_AllShipped ==
    \A id \in 1..Len(calls) : RequestsOf(id) # {}

C8_Witness ==
    \E id \in 1..Len(calls) :
        /\ calls[id].context.active.kind = "span"
        /\ ~calls[id].context.sampled
        /\ RequestsOf(id) # {}

\* the log calls whose level is enabled, in call order
EnabledCalls ==
    LET Enabled(id) == isLevelEnabled(calls[id].level)
    IN  SelectSeq([id \in 1..Len(calls) |-> id], Enabled)

\* C10: the records of the local sink (written, then queued) are the records
\* of the log calls in call order: none dropped, duplicated or reordered.
C10_LocalFifo ==
    /\ Len(LocalRecords) = Len(EnabledCalls)
    /\ \A i \in 1..Len(LocalRecords) :
          /\ LocalRecords[i].id = EnabledCalls[i]
          /\ LocalRecords[i].level = calls[EnabledCalls[i]].level
          /\ LocalRecords[i].message = calls[EnabledCalls[i]].message

C10_Witness ==
    /\ Len(file) >= 1
    /\ Len(buffer) >= 1
    /\ file[1].id < buffer[1].id

(***************************************************************************)
(* Specification of the resolver: one call on a carrier and an ambient     *)
(* context drawn from the sample sets below.                               *)
(***************************************************************************)
\* the trace ids the carrier sources hold, all different from the span's
TidField == Rep("d", 32)

TidHeader == Rep("b", 16)

TidParent == <<"1", "2", "3", "4", "5", "6", "7", "8", "9", "0", "a", "b", "c", "d", "e", "f",
               "1", "2", "3", "4", "5", "6", "7", "8", "9", "0", "a", "b", "c", "d", "e", "f">>

TidB3 == Rep("E", 16)

Traceparent(tid) == <<"0", "0", "-">> \o tid \o <<"-">> \o Rep("b", 16) \o <<"-", "0", "1">>

B3(tid) == tid \o <<"-">> \o Rep("b", 16) \o <<"-", "1">>

\* own properties a carrier can have for its direct trace field
TidFieldCamel == Rep("1", 32)
TidFieldUpper == Rep("2", 32)

\* carriers that hold several direct fields at once
SeveralDirectProps ==
    {[k \in {"traceId", "traceID", "trace_id"} |->
        CASE k = "traceId" -> Str(TidFieldCamel)
          [] k = "traceID" -> Str(TidFieldUpper)
          [] OTHER -> Str(TidField)],
     [k \in {"traceID", "trace_id"} |->
        IF k = "traceID" THEN Str(TidFieldUpper) ELSE Str(TidField)],
     [k \in {"traceId", "trace_id"} |->
        IF k = "traceId" THEN Undef ELSE Str(TidField)]}

DirectProps ==
    {NoProps}
    \cup {[k \in {key} |-> val] :
            key \in {"traceId", "traceID", "trace_id"},
            val \in {Str(TidField), Str(<<>>), Str(<<" ">>), Num(<<"7">>)}}
    \cup SeveralDirectProps

\* header objects: a trace-id header, a traceparent and a b3 header
HeaderTraceProps ==
    {NoProps}
    \cup {[k \in {key} |-> val] :
            key \in {"traceid", "x-trace-id", "x-b3-traceid", "X-Trace-Id", "X-B3-TraceId"},
            val \in {Str(TidHeader), Str(<<>>)}}

TraceparentProps ==
    {NoProps}
    \cup {[k \in {"traceparent"} |-> Str(v)] :
            v \in {Traceparent(TidParent), Traceparent(Rep("A", 16)),
                   Traceparent(Rep("g", 32)), Traceparent(Rep("a", 15)),
                   Traceparent(Rep("a", 33)), Rep("a", 32)}}

B3Props ==
    {NoProps}
    \cup {[k \in {"b3"} |-> Str(v)] : v \in {B3(TidB3), TidB3, B3(Rep("z", 16))}}

HeaderObjects ==
    {Obj(Spread(h, Spread(t, b))) : h \in HeaderTraceProps, t \in TraceparentProps, b \in B3Props}

\* where the carrier keeps its headers: headers, req.headers, or nowhere
HeaderPlacements(h) ==
    {[k \in {"headers"} |-> h], [k \in {"req"} |-> Obj([j \in {"headers"} |-> h])]}

\* carriers of unexpected shape: headers or req that are no objects, header
\* and propagation values that are no strings
OddCarriers ==
    {Obj([k \in {key} |-> val]) :
        key \in {"headers", "req", "traceparent", "b3"},
        val \in {Null, Str(<<"h">>), Num(<<"7">>), Num(<<"0">>), Obj(NoProps)}}
    \cup {Obj([k \in {"headers"} |-> Obj([j \in {key} |-> val])]) :
            key \in {"x-trace-id", "traceparent", "b3"},
            val \in {Null, Num(<<"7">>), Obj(NoProps)}}
    \cup {Obj([k \in {"req"} |-> Obj([j \in {"headers"} |-> val])]) :
            val \in {Null, Str(<<"h">>), Num(<<"7">>)}}

Carriers ==
    {Undef, Null, Str(TidField)}
    \cup OddCarriers
    \cup {Obj(d) : d \in DirectProps}
    \cup {Obj(Spread(d, hp)) : d \in DirectProps, hp \in UNION {HeaderPlacements(h) : h \in HeaderObjects}}

Ambients == {NoAmbient, AmbientSpan(TidA), AmbientThrows}

InitResolver ==
    /\ LOG_LEVEL = "info"
    /\ samplerKind = "ratio"
    /\ InitState
    /\ InitAppIdle
    /\ rpc = "in"
    /\ ambientIn \in Ambients
    /\ extraIn \in Carriers
    /\ resolved = Undef
    /\ resolvedV2 = Undef

\* getTraceIdForLogging(extra) is called under the ambient context
Resolve ==
    /\ rpc = "in"
    /\ rpc' = "out"
    /\ resolved' = getTraceIdForLogging(ambientIn, extraIn)
    /\ resolvedV2' = getTraceIdForLogging_v2(ambientIn, extraIn)
    /\ UNCHANGED <<configVars, spanVars, phase, logVars, file, rejections, wrapVars,
                   ambientIn, extraIn, appVars>>

NextResolver == Resolve

SpecResolver == InitResolver /\ [][NextResolver]_vars

\* C1: when an ambient active span exists, both versions of the resolver
\* return the span's trace id, whatever the carrier holds.
C1_AmbientWins ==
    (rpc = "out" /\ ambientIn.kind = "span") =>
        /\ resolved = Str(ambientIn.traceId)
        /\ resolvedV2 = Str(ambientIn.traceId)

C1_Witness ==
    /\ rpc = "out"
    /\ ambientIn.kind = "span"
    /\ Get(extraIn, "trace_id") = Str(TidField)
    /\ Get(HeadersOf(extraIn), "x-trace-id") = Str(TidHeader)
    /\ Get(HeadersOf(extraIn), "traceparent") = Str(Traceparent(TidParent))
    /\ Get(HeadersOf(extraIn), "b3") = Str(B3(TidB3))
    /\ resolved = Str(TidA)

\* the carrier has none of the direct trace fields and none of the trace-id
\* headers, under any spelling of their keys
DirectFieldKeys == {"traceId", "traceID", "trace_id"}

TraceIdHeaderKeys == {"traceid", "x-trace-id", "x-b3-traceid", "X-Trace-Id", "X-B3-TraceId"}

OnlyPropagationHeaders(extra) ==
    /\ extra.t = "object"
    /\ DOMAIN extra.m \cap DirectFieldKeys = {}
    /\ DOMAIN Props(HeadersOf(extra)) \cap TraceIdHeaderKeys = {}

\* 16 to 32 hex characters of either letter case
WellFormedId(s) ==
    /\ Len(s) \in 16..32
    /\ \A i \in 1..Len(s) :
          s[i] \in {"0", "1", "2", "3", "4", "5", "6", "7", "8", "9"}
                    \cup {"a", "b", "c", "d", "e", "f"} \cup {"A", "B", "C", "D", "E", "F"}

\* the n-th hyphen-delimited segment of a header value, empty when there is none
Segment(v, n) ==
    IF v.t = "string" /\ Len(Split(v.s)) >= n THEN Split(v.s)[n] ELSE <<>>

\* C12: with no ambient span, no direct trace field and no trace-id header,
\* both versions of the resolver return the second segment of traceparent
\* when it is 16 to 32 hex characters, otherwise the first segment of b3 when
\* that is 16 to 32 hex characters, otherwise nothing
C12_PropagationHeadersParsed ==
    (rpc = "out" /\ ambientIn.kind # "span" /\ OnlyPropagationHeaders(extraIn)) =>
        LET tp == Segment(Get(HeadersOf(extraIn), "traceparent"), 2)
            b3 == Segment(Get(HeadersOf(extraIn), "b3"), 1)
            expected == IF WellFormedId(tp) THEN Str(tp)
                        ELSE IF WellFormedId(b3) THEN Str(b3)
                        ELSE Undef
        IN  resolved = expected /\ resolvedV2 = expected

\* a malformed traceparent next to a well-formed b3: the b3 trace id is returned
C12_Witness ==
    /\ rpc = "out"
    /\ ambientIn.kind = "none"
    /\ OnlyPropagationHeaders(extraIn)
    /\ Get(HeadersOf(extraIn), "traceparent") = Str(Traceparent(Rep("g", 32)))
    /\ Get(HeadersOf(extraIn), "b3") = Str(B3(TidB3))
    /\ resolved = Str(TidB3)

\* the trace-id headers of the carrier with a non-empty string value, under
\* any spelling of their keys
TraceIdHeaderValues(extra) ==
    LET h == Props(HeadersOf(extra))
    IN  {h[k] : k \in {j \in DOMAIN h \cap TraceIdHeaderKeys : h[j].t = "string" /\ h[j].s # <<>>}}

\* C13 as claimed: with no ambient span and no direct trace field, the value
\* of a traceid, x-trace-id or x-b3-traceid header is returned whatever the
\* letter case of the header's key
C13_HeaderKeyAnyCase_AsClaimed ==
    (/\ rpc = "out"
     /\ ambientIn.kind # "span"
     /\ extraIn.t = "object"
     /\ DOMAIN extraIn.m \cap DirectFieldKeys = {}) =>
        \A v \in TraceIdHeaderValues(extraIn) : resolved = v /\ resolvedV2 = v

\* a string that is empty or holds only whitespace
IsBlank(v) == v.t = "string" /\ \A i \in 1..Len(v.s) : v.s[i] = " "

\* C14 as claimed: an empty or whitespace-only field or header value is
\* treated as absent, so neither version of the resolver ever returns an
\* empty or whitespace-only string
C14_BlankTreatedAbsent_AsClaimed ==
    rpc = "out" => ~IsBlank(resolved) /\ ~IsBlank(resolvedV2)

\* the direct field the resolver is to return: the first of traceId, traceID,
\* trace_id that holds a non-blank string
PresentField(extra, k) == IsString(Get(extra, k)) /\ ~IsBlank(Get(extra, k))

FirstDirectField(extra) ==
    CASE PresentField(extra, "traceId") -> Get(extra, "traceId")
      [] PresentField(extra, "traceID") -> Get(extra, "traceID")
      [] PresentField(extra, "trace_id") -> Get(extra, "trace_id")
      [] OTHER -> Undef

\* C15 as claimed: with no ambient span a carrier's direct field wins over
\* every header source, the first one present in the order traceId, traceID,
\* trace_id being returned by either version of the resolver
C15_DirectFieldFirst_AsClaimed ==
    (rpc = "out" /\ ambientIn = NoAmbient /\ FirstDirectField(extraIn) # Undef) =>
        /\ resolved = FirstDirectField(extraIn)
        /\ resolvedV2 = FirstDirectField(extraIn)

(***************************************************************************)
(* Records of one log call: the fields handed to the local sink and the    *)
(* request pushed, by version of the emitter.                              *)
(***************************************************************************)
\* logging.ts pushToLoki, earlier version: resolves the trace id again and
\* adds it to the stream labels and to the line's fields
pushToLoki_v2(reqs, id, active, level, message, extra) ==
    LET traceId == getTraceIdForLogging_v2(active, extra)
        base == [job |-> LOKI_JOB, level |-> level, app |-> LOKI_APP, env |-> LOKI_ENV]
        labels == IF Truthy(traceId) THEN Spread(base, [trace_id |-> traceId.s]) ELSE base
        fields == IF Truthy(traceId) /\ ~Truthy(Get(extra, "traceId"))
                  THEN Spread(Props(extra), [traceId |-> traceId])
                  ELSE Props(extra)
    IN  Append(reqs,
            [id |-> id, labels |-> labels,
             line |-> [message |-> message,
                       text |-> IF DOMAIN fields # {} THEN <<Json(Obj(fields)).m>> ELSE <<>>],
             state |-> "inflight"])

\* logging.ts log, earlier version: { traceId, ...extra } locally,
\* { ...extra, traceId } remotely; error puts its detail before ...extra
log_v2(c, level, message, error, extra, inv) ==
    LET traceId == getTraceIdForLogging_v2(c.active, extra)
        errObj == IF Truthy(error) THEN ErrDetail(error) ELSE Undef
        head == IF level = "error" THEN [error |-> errObj] ELSE NoProps
        local == Spread(Spread([traceId |-> traceId], head), Props(extra))
        remote == Spread(Spread(head, Props(extra)), [traceId |-> traceId])
        id == Len(calls) + 1
    IN  /\ calls' = Append(calls, [inv |-> inv, level |-> level, message |-> message,
                                   fields |-> local, error |-> error, context |-> c])
        /\ buffer' = pinoWrite(buffer, id, level, message, local)
        /\ UNCHANGED manualBuffer
        /\ requests' = pushToLoki_v2(requests, id, c.active, level, message, Obj(remote))

\* the fields a caller passes to one log call
CallerFields ==
    {Undef, Obj(NoProps), Obj([userId |-> Str(<<"u">>)]),
     Obj([trace_id |-> Str(TidField)]), Obj([trace_id |-> Str(<<>>)]),
     Obj([traceId |-> Str(TidField)]), Obj([traceId |-> Str(<<>>)]),
     Obj([error |-> Str(<<"x">>)]),
     Obj([error |-> Str(<<"x">>), userId |-> Str(<<"u">>)]),
     Obj([headers |-> Obj([k \in {"x-trace-id"} |-> Str(TidHeader)])])}

\* level and Error of one log call: only error takes an Error, and may go without
CallerInputs ==
    [level : {"debug", "info", "warn"}, error : {Undef}]
    \cup [level : {"error"}, error : {Undef, ErrBoom}]

InitRecord ==
    /\ LOG_LEVEL \in {"debug", "info"}
    /\ samplerKind = "ratio"
    /\ InitState
    /\ InitAppIdle
    /\ rpc = "in"
    /\ ambientIn \in {NoAmbient, AmbientSpan(TidA)}
    /\ extraIn \in CallerFields
    /\ resolved = Undef
    /\ resolvedV2 = Undef

CallerContext == [active |-> ambientIn, sampled |-> TRUE]

\* log.<level>(message, [err,] extraIn) of logging.ts
EmitLog ==
    /\ rpc = "in"
    /\ rpc' = "logging"
    /\ \E in \in CallerInputs :
          log(CallerContext, in.level, <<"m">>, in.error, extraIn, 0)
    /\ resolved' = getTraceIdForLogging(ambientIn, extraIn)
    /\ UNCHANGED <<configVars, spanVars, phase, file, rejections, wrapVars,
                   ambientIn, extraIn, resolvedV2, appVars>>

\* the same call on the earlier version of logging.ts
EmitLogV2 ==
    /\ rpc = "in"
    /\ rpc' = "logging-v2"
    /\ \E in \in CallerInputs :
          log_v2(CallerContext, in.level, <<"m">>, in.error, extraIn, 0)
    /\ resolvedV2' = getTraceIdForLogging_v2(ambientIn, extraIn)
    /\ UNCHANGED <<configVars, spanVars, phase, file, rejections, wrapVars,
                   ambientIn, extraIn, resolved, appVars>>

\* createManualLogger(traceId).<level>(message, [err,] extraIn) of
\* logger-tracing.ts, the trace id being the active span's
EmitManual ==
    /\ rpc = "in"
    /\ rpc' = "logger-tracing"
    /\ \E in \in CallerInputs :
          logMessage(in.level, <<"m">>, extraIn, getCurrentTraceId(ambientIn),
                     in.error, 0, CallerContext)
    /\ UNCHANGED <<configVars, spanVars, phase, file, rejections, wrapVars,
                   ambientIn, extraIn, resolved, resolvedV2, appVars>>

\* createRequestLogger of the earlier version binds the id under traceId
createRequestLogger_v2(requestId, userId, traceId, active) ==
    [requestId |-> requestId, userId |-> userId,
     traceId |-> Or(traceId, getCurrentTraceId(active))]

\* a request logger is created under one ambient context, with or without
\* a trace id argument, and used for one log call under ambientIn
EmitRequestLog ==
    /\ rpc = "in"
    /\ rpc' = "requestLogger"
    /\ \E in \in CallerInputs, created \in {NoAmbient, AmbientSpan(TidB)},
          traceId \in {Undef, Str(TidB)} :
          log(CallerContext, in.level, <<"m">>, in.error,
              Obj(Spread(createRequestLogger(RequestId(1), Undef, traceId, created),
                         Props(extraIn))), 0)
    /\ UNCHANGED <<configVars, spanVars, phase, file, rejections, wrapVars,
                   ambientIn, extraIn, resolved, resolvedV2, appVars>>

\* the same on the earlier version of logging.ts
EmitRequestLogV2 ==
    /\ rpc = "in"
    /\ rpc' = "requestLogger-v2"
    /\ \E in \in CallerInputs, created \in {NoAmbient, AmbientSpan(TidB)},
          traceId \in {Undef, Str(TidB)} :
          log_v2(CallerContext, in.level, <<"m">>, in.error,
                 Obj(Spread(createRequestLogger_v2(RequestId(1), Undef, traceId, created),
                            Props(extraIn))), 0)
    /\ UNCHANGED <<configVars, spanVars, phase, file, rejections, wrapVars,
                   ambientIn, extraIn, resolved, resolvedV2, appVars>>

NextRecord == EmitLog \/ EmitLogV2 \/ EmitManual \/ EmitRequestLog \/ EmitRequestLogV2

SpecRecord == InitRecord /\ [][NextRecord]_vars

\* keys under which a record can carry a trace id
TraceIdKeys == {"traceId", "traceID", "trace_id"}

\* the fields of the remote line of request r (none when the line is the bare message)
LineFields(r) == IF requests[r].line.text = <<>> THEN NoProps ELSE requests[r].line.text[1]

\* C16 as claimed: when there is no ambient span and the resolver returns
\* absent for the carrier, neither the local record nor the remote line of
\* the log call holds a trace-id field, and the stream labels hold no
\* trace-id label
C16_NoTraceIdWhenAbsent_AsClaimed ==
    \A i \in 1..Len(calls) :
        (/\ rpc \in {"logging", "logging-v2"}
         /\ ambientIn = NoAmbient
         /\ (IF rpc = "logging" THEN resolved ELSE resolvedV2) = Undef) =>
            /\ DOMAIN Json(Obj(calls[i].fields)).m \cap TraceIdKeys = {}
            /\ \A r \in 1..Len(requests) :
                  /\ DOMAIN LineFields(r) \cap TraceIdKeys = {}
                  /\ DOMAIN requests[r].labels \cap TraceIdKeys = {}

\* C17: the resolver never raises. For every carrier shape, and also when the
\* ambient active-span lookup fails, both versions return a string or
\* undefined, and under a failed lookup they return what they return for the
\* same carrier without an ambient span.
C17_ResolverNeverRaises ==
    rpc = "out" =>
        /\ resolved.t \in {"string", "undefined"}
        /\ resolvedV2.t \in {"string", "undefined"}
        /\ ambientIn = AmbientThrows =>
              /\ resolved = getTraceIdForLogging(NoAmbient, extraIn)
              /\ resolvedV2 = getTraceIdForLogging_v2(NoAmbient, extraIn)

\* the lookup failed and a header of the carrier was still resolved
C17_Witness ==
    /\ rpc = "out"
    /\ ambientIn = AmbientThrows
    /\ Get(HeadersOf(extraIn), "x-trace-id") = Str(TidHeader)
    /\ Get(extraIn, "req") # Undef
    /\ resolved = Str(TidHeader)

\* C18 as claimed: the stream labels of every remote push, by whichever
\* version of the emitter, are exactly job, level, app and env; no trace id
\* or other per-record value is a label
C18_FixedLabels_AsClaimed ==
    \A r \in 1..Len(requests) : DOMAIN requests[r].labels = {"job", "level", "app", "env"}

\* C19 as claimed: for every error call made with an Error, the error entry
\* of the local record and that of the remote line are exactly the name,
\* message and stack of that Error, whatever the caller's fields hold
C19_ErrorEntryIsDetail_AsClaimed ==
    \A i \in 1..Len(calls) :
        (calls[i].level = "error" /\ Truthy(calls[i].error)) =>
            /\ Get(Obj(calls[i].fields), "error") = ErrDetail(calls[i].error)
            /\ \A r \in 1..Len(requests) :
                  requests[r].id = i =>
                      Get(Obj(LineFields(r)), "error") = ErrDetail(calls[i].error)

\* C20 as claimed: whenever createSpan settles, whether it opened the span
\* the body ran in or reused the active one, that span then has success
\* status if the body returned normally and failure status with the error's
\* message if the body threw an Error
C20_StatusMarked_AsClaimed ==
    [][\A p \in Procs :
          ExitCreateSpan(p) =>
              LET sp == spans'[invs[Top(p)].span]
              IN  /\ ret[p].k = "value" => sp.status = "ok"
                  /\ (ret[p].k = "throw" /\ IsErrorObject(ret[p].v)) =>
                        sp.status = "error" /\ sp.message = Get(ret[p].v, "message")]_vars

getAuthHeaders(env) ==
    LET headers == [k \in {"Content-Type"} |-> [scheme |-> "application/json", of |-> <<>>]]
    IN  IF Truthy(Get(env, "LOKI_USERNAME")) /\ Truthy(Get(env, "LOKI_PASSWORD"))
        THEN Spread(headers,
                    [Authorization |->
                        [scheme |-> "Basic",
                         of |-> <<"base64", Get(env, "LOKI_USERNAME").s \o <<":">>
                                            \o Get(env, "LOKI_PASSWORD").s>>]])
        ELSE headers

\* part_003 getAuthHeaders: a bearer token goes first, Basic otherwise
getAuthHeaders_bearer(env) ==
    IF Truthy(Get(env, "LOKI_BEARER_TOKEN"))
    THEN Spread(getAuthHeaders(Obj(NoProps)),
                [Authorization |->
                    [scheme |-> "Bearer", of |-> Get(env, "LOKI_BEARER_TOKEN").s]])
    ELSE getAuthHeaders(env)

\* process.env: each variable unset, empty or set
EnvValues == {Undef, Str(<<>>), Str(<<"a">>), Str(<<"b">>)}

Environments ==
    {Obj([k \in {"LOKI_USERNAME", "LOKI_PASSWORD", "LOKI_BEARER_TOKEN"} |->
            CASE k = "LOKI_USERNAME" -> u [] k = "LOKI_PASSWORD" -> pw [] OTHER -> tok]) :
        u \in EnvValues, pw \in EnvValues, tok \in EnvValues}

InitAuth ==
    /\ LOG_LEVEL = "info"
    /\ samplerKind = "ratio"
    /\ InitState
    /\ InitAppIdle
    /\ rpc = "in"
    /\ ambientIn = NoAmbient
    /\ extraIn \in Environments
    /\ resolved = Undef
    /\ resolvedV2 = Undef

\* axios.post(LOKI_URL, body, { headers: getAuthHeaders(), ... })
PostHeaders ==
    /\ rpc = "in"
    /\ rpc' = "out"
    /\ resolved' = getAuthHeaders(extraIn)
    /\ resolvedV2' = getAuthHeaders_bearer(extraIn)
    /\ UNCHANGED <<configVars, spanVars, phase, logVars, file, rejections, wrapVars,
                   ambientIn, extraIn, appVars>>

SpecAuth == InitAuth /\ [][PostHeaders]_vars

\* C22 as claimed: in every version a push carries an Authorization header
\* exactly when a bearer token or a username with a password is configured,
\* a Bearer one for the token and a Basic one for username and password
C22_AuthHeaderIffConfigured_AsClaimed ==
    rpc = "out" =>
        \A h \in {resolved, resolvedV2} :
            LET bearer == Truthy(Get(extraIn, "LOKI_BEARER_TOKEN"))
                basic == Truthy(Get(extraIn, "LOKI_USERNAME"))
                         /\ Truthy(Get(extraIn, "LOKI_PASSWORD"))
            IN  /\ "Authorization" \in DOMAIN h <=> (bearer \/ basic)
                /\ bearer => h["Authorization"].scheme = "Bearer"
                /\ (basic /\ ~bearer) => h["Authorization"].scheme = "Basic"

(***************************************************************************)
(* Start-up of logging.ts: the log directory and the module's evaluation.  *)
(***************************************************************************)
\* ensureDirectoryExists(dirPath): fs.existsSync is true for whatever the
\* path names, a directory or a file; fs.mkdirSync creates the directory or
\* throws
ensureDirectoryExists(dir, mkdirWorks) ==
    IF dir # "missing" THEN [dir |-> dir, raised |-> FALSE]
    ELSE IF mkdirWorks THEN [dir |-> "directory", raised |-> FALSE]
    ELSE [dir |-> dir, raised |-> TRUE]

\* the module body runs once: ensureDirectoryExists(logDirectory), then the
\* destination and the logger are built and exported; an exception ends it
LoadModule ==
    /\ module = "loading"
    /\ \E mkdirWorks \in BOOLEAN :
          LET r == ensureDirectoryExists(logDir, mkdirWorks)
          IN  /\ logDir' = r.dir
              /\ module' = IF r.raised THEN "failed" ELSE "ready"
    /\ UNCHANGED <<configVars, spanVars, phase, logVars, file, rejections, wrapVars,
                   resolverVars, db, handlers>>

\* a caller that imported the module logs through it
ServeLog == module = "ready" /\ DirectLog

\* the destination appends to logDirectory/logFileName, which takes the directory
WriteRecord == module = "ready" /\ logDir = "directory" /\ Flush

InitStartup ==
    /\ LOG_LEVEL = "info"
    /\ samplerKind = "ratio"
    /\ InitState
    /\ InitResolverIdle
    /\ logDir \in {"missing", "directory", "file"}
    /\ module = "loading"
    /\ db = [posts |-> {}, users |-> {}]
    /\ handlers = <<>>

NextStartup == LoadModule \/ ServeLog \/ WriteRecord

SpecStartup == InitStartup /\ [][NextStartup]_vars

\* C23 as claimed: the log directory exists before a record is written; a
\* log directory that was not there at start-up has either been created or
\* the module's initialisation has failed, so whenever the logger is handed
\* out or a log call has been served the directory exists
C23_DirectoryBeforeFirstWrite_AsClaimed ==
    /\ file # <<>> => logDir = "directory"
    /\ (module = "ready" \/ calls # <<>>) => logDir = "directory"
    /\ module = "failed" => calls = <<>>

\* C24: the lifecycle events of a withLogging invocation (either library)
\* are ordered start, body, terminal. Entering emits "Starting" for the new
\* invocation, whose body has not run; while the body runs and logs, each
\* enclosing invocation has its "Starting" event and no other; settling
\* happens after the body finished and emits one terminal event, "Completed"
\* after a result and "Failed" after a throw; a settled invocation has two
\* events and gets no more.
C24_LifecycleOrdered ==
    [][\A p \in Procs :
          /\ (EnterWithLogging(p) \/ EnterManualWithLogging(p)) =>
                /\ Len(calls') = Len(calls) + 1
                /\ calls'[Len(calls')].inv = Len(invs')
                /\ calls'[Len(calls')].message = <<"Starting ", Operation>>
                /\ invs'[Len(invs')].body.k = "none"
          /\ (BodyReturn(p) \/ BodyThrow(p)) =>
                \A k \in 1..Len(stack[p]) :
                    invs[stack[p][k]].kind = "withLogging" =>
                        /\ LifecycleEvents(stack[p][k])' = LifecycleEvents(stack[p][k])
                        /\ Cardinality(LifecycleEvents(stack[p][k])) = 1
                        /\ \A i \in LifecycleEvents(stack[p][k]) :
                              /\ calls[i].message = <<"Starting ", Operation>>
                              /\ \A j \in (Len(calls) + 1)..Len(calls') : i < j
          /\ (ExitWithLogging(p) \/ ExitManualWithLogging(p)) =>
                /\ ret[p].k # "none"
                /\ Len(calls') = Len(calls) + 1
                /\ calls'[Len(calls')].inv = Top(p)
                /\ calls'[Len(calls')].message =
                      IF ret[p].k = "value" THEN <<"Completed ", Operation>>
                      ELSE <<"Failed ", Operation>>
          /\ \A n \in WithLoggingInvs :
                invs[n].out.k # "none" =>
                    /\ Cardinality(LifecycleEvents(n)) = 2
                    /\ LifecycleEvents(n)' = LifecycleEvents(n)]_vars

\* a withLogging has settled with a result: its "Starting" event, a record
\* its body logged and its "Completed" event follow one another
C24_Witness ==
    /\ \E n \in WithLoggingInvs :
          /\ invs[n].out.k = "value"
          /\ \E i, j, k \in 1..Len(calls) :
                /\ i < j /\ j < k
                /\ calls[i].inv = n /\ calls[i].message = <<"Starting ", Operation>>
                /\ calls[j].message = <<"body">>
                /\ calls[k].inv = n /\ calls[k].message = <<"Completed ", Operation>>

\* C25 as claimed: for every log call made through a request logger, of
\* either version, the fields handed to the local sink and the fields of the
\* remote line agree on the trace id under each of its keys (equal, or
\* absent from both), whatever span is active at the time of the call
C25_SameTraceIdBothCopies_AsClaimed ==
    rpc \in {"requestLogger", "requestLogger-v2"} =>
        \A r \in 1..Len(requests), k \in TraceIdKeys :
            Get(Json(Obj(calls[requests[r].id].fields)), k) = Get(Obj(LineFields(r)), k)

\* C26 as claimed: whatever value the body of a createSpan threw, an Error
\* or null, the call rejects with that same value and, when it opened the
\* span, has ended it
C26_ThrownValuePreserved_AsClaimed ==
    \A n \in 1..Len(invs) :
        (invs[n].kind = "createSpan" /\ invs[n].body.k = "throw") =>
            /\ invs[n].out = invs[n].body
            /\ invs[n].owns => spans[invs[n].span].ended = 1

(***************************************************************************)
(* Interleaved requests: each handler returns the result of one            *)
(* withLogging, the requests' steps interleave freely.                     *)
(***************************************************************************)
NextInterleaved ==
    \E p \in Clients :
        \/ Request(p)
        \/ EnterWithLogging(p)
        \/ EnterManualWithLogging(p)
        \/ BodyReturn(p)
        \/ BodyThrow(p)
        \/ ExitWithLogging(p)
        \/ ExitManualWithLogging(p)
        \/ Finish(p)

SpecInterleaved == InitWrap /\ [][NextInterleaved]_vars

\* the trace id the records of request p are to carry: that of its server
\* span, none without one
OwnTraceId(p) == IF ctx[p] = <<>> THEN Undef ELSE Str(CHOOSE t \in NewTraceIds(p) : TRUE)

\* C27: with requests interleaved, every record an invocation emits carries
\* the trace id of its own request's span, and with logging.ts the request
\* id generated for that very invocation: the lifecycle events (first
\* conjunct, on the calls made so far) and the records the body logs through
\* the logger it was handed (second conjunct, on the step that logs them).
C27_NoCrossRequestLeak ==
    [][\A p \in Clients :
          /\ \A i \in 1..Len(calls) :
                (calls[i].inv # 0 /\ invs[calls[i].inv].proc = p /\ phase[p] = "running") =>
                    /\ Get(Obj(calls[i].fields), "trace_id") = OwnTraceId(p)
                    /\ invs[calls[i].inv].lib = "logging" =>
                          Get(Obj(calls[i].fields), "requestId") = RequestId(calls[i].inv)
          /\ BodyReturn(p) =>
                /\ Get(Obj(calls'[Len(calls')].fields), "trace_id") = OwnTraceId(p)
                /\ invs[Top(p)].lib = "logging" =>
                      Get(Obj(calls'[Len(calls')].fields), "requestId") = RequestId(Top(p))]_vars

\* two requests with different trace ids are inside their wrappers at once,
\* and the one that entered first has logged from its body after the other
\* one's "Starting" event
C27_Witness ==
    \E p, q \in Clients :
        /\ p # q
        /\ ctx[p] # <<>> /\ ctx[q] # <<>>
        /\ stack[q] # <<>>
        /\ ret[p].k = "value"
        /\ \E i, j, k \in 1..Len(calls) :
              /\ i < j /\ j < k
              /\ calls[i].inv # 0 /\ invs[calls[i].inv].proc = p
              /\ calls[j].inv # 0 /\ invs[calls[j].inv].proc = q
              /\ calls[k].message = <<"body">>
              /\ Get(Obj(calls[k].fields), "trace_id") = OwnTraceId(p)
              /\ OwnTraceId(p) # OwnTraceId(q)

(***************************************************************************)
(* Route handlers whose work runs inside createSpan of tracing.ts.         *)
(***************************************************************************)
\* NextResponse.json({ message, error }, { status: 500 })
ServerError == Obj([status |-> Num(<<"5", "0", "0">>)])

\* the handler's own try / catch inside the span callback: the work threw,
\* the catch block logs the error through the request logger made before
\* createSpan, records the exception on the span (which leaves the status
\* as it is) and returns the 500 response
BodyCatch(p) ==
    /\ Running(p)
    /\ stack[p] # <<>>
    /\ invs[Top(p)].kind = "createSpan"
    /\ invs[Top(p)].lib = "logging"
    /\ ret' = [ret EXCEPT ![p] = Returned(ServerError)]
    /\ requestLoggerLog(p, createRequestLogger(RequestId(Top(p)), Undef, Undef,
                                               IF Len(ctx[p]) > 1 THEN Active(p)
                                               ELSE NoAmbient),
                        "error", <<"failed">>, ErrBoom, Undef, 0)
    /\ UNCHANGED <<configVars, spanVars, phase, file, rejections, stack, invs,
                   resolverVars, appVars>>

NextRoute ==
    \/ \E p \in Procs :
          \/ Request(p)
          \/ EnterCreateSpan(p)
          \/ BodyReturn(p)
          \/ BodyCatch(p)
          \/ ExitCreateSpan(p)
          \/ Finish(p)
    \/ Flush
    \/ RespondToCaller

SpecRoute == InitWrap /\ [][NextRoute]_vars

\* C28 as claimed: when a handler's createSpan has settled with the 500
\* response, the span it ran in has been ended with failure status
C28_ServerErrorMarksSpanFailed_AsClaimed ==
    \A n \in 1..Len(invs) :
        (invs[n].kind = "createSpan" /\ invs[n].out = Returned(ServerError)) =>
            /\ spans[invs[n].span].ended = 1
            /\ spans[invs[n].span].status = "error"

(***************************************************************************)
(* Post routes over the document store. A handler is cut into steps at     *)
(* the awaits between which another request can change the store.          *)
(***************************************************************************)
\* getUserFromRequest(req): the user of a valid token cookie, or null
Users == {Str(<<"a">>), Str(<<"b">>)}

\* a request being handled: the user it is authenticated as, what it names
\* (a post id, a set of ids, an email), where it stands and its answer
Handler(kind, user, target, pc, status) ==
    [kind |-> kind, user |-> user, target |-> target, pc |-> pc, status |-> status]

PostOf(id) == {x \in db.posts : x.id = id}

\* POST /api/posts: 401 without a user, 400 without title or content,
\* otherwise insertOne with authorId: user.id; the store assigns a new _id
CreatePost ==
    /\ Len(handlers) < MaxHandlers
    /\ \E user \in Users \cup {Null}, complete \in BOOLEAN :
          LET h == Len(handlers) + 1
              status == IF user = Null THEN 401 ELSE IF ~complete THEN 400 ELSE 200
          IN  /\ handlers' = Append(handlers, Handler("create", user, h, "done", status))
              /\ db' = IF status = 200
                       THEN [db EXCEPT !.posts = @ \cup {[id |-> h, authorId |-> user,
                                                         title |-> "new"]}]
                       ELSE db
    /\ UNCHANGED <<configVars, spanVars, phase, logVars, file, rejections, wrapVars,
                   resolverVars, logDir, module>>

\* PUT and DELETE /api/posts/[id], and the bulk DELETE /api/posts, up to
\* their first database call: 401 without a user, 400 for an update
\* without title or content
BeginPostRequest ==
    /\ Len(handlers) < MaxHandlers
    /\ \E kind \in {"update", "delete", "deleteMany"}, user \in Users \cup {Null},
          id \in 1..Len(handlers), complete \in BOOLEAN :
          /\ kind # "update" => complete
          /\ handlers' =
                Append(handlers,
                       IF user = Null THEN Handler(kind, user, id, "done", 401)
                       ELSE IF ~complete THEN Handler(kind, user, id, "done", 400)
                       ELSE Handler(kind, user, id, "find", 0))
    /\ UNCHANGED <<configVars, spanVars, phase, logVars, file, rejections, wrapVars,
                   resolverVars, logDir, module, db>>

findOne_noAuthorCheck(h) ==
    /\ h \in 1..Len(handlers)
    /\ handlers[h].kind \in {"update", "delete"}
    /\ handlers[h].pc = "find"
    /\ handlers' = IF PostOf(handlers[h].target) = {}
                   THEN [handlers EXCEPT ![h].pc = "done", ![h].status = 404]
                   ELSE [handlers EXCEPT ![h].pc = "write"]
    /\ UNCHANGED <<configVars, spanVars, phase, logVars, file, rejections, wrapVars,
                   resolverVars, logDir, module, db>>

\* posts.findOne({ _id }) of PUT and DELETE: 404 when there is no such
\* post, 403 when post.authorId !== user.id
findOne(h) ==
    /\ h \in 1..Len(handlers)
    /\ handlers[h].kind \in {"update", "delete"}
    /\ handlers[h].pc = "find"
    /\ handlers' = IF PostOf(handlers[h].target) = {}
                   THEN [handlers EXCEPT ![h].pc = "done", ![h].status = 404]
                   ELSE IF \E x \in PostOf(handlers[h].target) :
                              x.authorId # handlers[h].user
                   THEN [handlers EXCEPT ![h].pc = "done", ![h].status = 403]
                   ELSE [handlers EXCEPT ![h].pc = "write"]
    /\ UNCHANGED <<configVars, spanVars, phase, logVars, file, rejections, wrapVars,
                   resolverVars, logDir, module, db>>

\* posts.updateOne({ _id }, { $set: { title, content } }) or
\* posts.deleteOne({ _id }): the post with that id as it is now, if any
writeOne(h) ==
    /\ h \in 1..Len(handlers)
    /\ handlers[h].pc = "write"
    /\ handlers' = [handlers EXCEPT ![h].pc = "done", ![h].status = 200]
    /\ db' = [db EXCEPT !.posts =
                 (@ \ PostOf(handlers[h].target))
                 \cup IF handlers[h].kind = "update"
                      THEN {[x EXCEPT !.title = "edited"] : x \in PostOf(handlers[h].target)}
                      ELSE {}]
    /\ UNCHANGED <<configVars, spanVars, phase, logVars, file, rejections, wrapVars,
                   resolverVars, logDir, module>>

\* posts.deleteMany({ _id: { $in: ids }, authorId: user.id }) for the ids
\* sent (here the ids up to the one named), or
\* posts.deleteMany({ authorId: user.id }) when none are sent
deleteMany(h) ==
    /\ h \in 1..Len(handlers)
    /\ handlers[h].kind = "deleteMany"
    /\ handlers[h].pc = "find"
    /\ \E selected \in BOOLEAN :
          db' = [db EXCEPT !.posts =
                    {x \in @ : ~(/\ x.authorId = handlers[h].user
                                 /\ selected => x.id <= handlers[h].target)}]
    /\ handlers' = [handlers EXCEPT ![h].pc = "done", ![h].status = 200]
    /\ UNCHANGED <<configVars, spanVars, phase, logVars, file, rejections, wrapVars,
                   resolverVars, logDir, module>>

InitRoutes ==
    /\ LOG_LEVEL = "info"
    /\ samplerKind = "ratio"
    /\ InitState
    /\ InitAppIdle
    /\ InitResolverIdle

NextPosts ==
    \/ CreatePost
    \/ BeginPostRequest
    \/ \E h \in 1..Len(handlers) : findOne(h)
    \/ \E h \in 1..Len(handlers) : writeOne(h)
    \/ \E h \in 1..Len(handlers) : deleteMany(h)

SpecPosts == InitRoutes /\ [][NextPosts]_vars

\* C29: in every step, a post that is altered or removed is altered or
\* removed by the handler that takes the step, an update or delete request
\* authenticated as the post's author; and an update or delete request
\* without a user is answered 401 in the step that receives it, which
\* leaves the store as it is.
C29_OnlyAuthorChangesPost ==
    [][/\ \A x \in db.posts :
             x \notin db'.posts =>
                 \E h \in 1..Len(handlers) :
                     /\ handlers'[h] # handlers[h]
                     /\ handlers[h].kind \in {"update", "delete", "deleteMany"}
                     /\ handlers[h].user = x.authorId
       /\ \A h \in (Len(handlers) + 1)..Len(handlers') :
             (handlers'[h].kind # "create" /\ handlers'[h].user = Null) =>
                 /\ handlers'[h].status = 401
                 /\ handlers'[h].pc = "done"
                 /\ db' = db]_vars

\* a user was refused another user's post with 403, and the author has
\* then removed that post with a request of their own
C29_Witness ==
    /\ \E h \in 1..Len(handlers) : handlers[h].status = 403
    /\ \E h \in 1..Len(handlers) :
          handlers[h].kind \in {"delete", "deleteMany"} /\ handlers[h].status = 200
    /\ \E h \in 1..Len(handlers) :
          /\ handlers[h].kind = "create" /\ handlers[h].status = 200
          /\ PostOf(h) = {}

(***************************************************************************)
(* Signup route: the account collection has a unique index on email.       *)
(***************************************************************************)
Emails == {"kim@example.com", "lee@example.com"}

\* POST signup up to its first database call: 400 without email or
\* password; createIndex({ email: 1 }, { unique: true }) changes nothing
\* once the index exists
BeginSignup ==
    /\ Len(handlers) < MaxHandlers
    /\ \E email \in Emails, complete \in BOOLEAN :
          handlers' = Append(handlers,
                             IF complete THEN Handler("signup", Null, email, "find", 0)
                             ELSE Handler("signup", Null, email, "done", 400))
    /\ UNCHANGED <<configVars, spanVars, phase, logVars, file, rejections, wrapVars,
                   resolverVars, logDir, module, db>>

\* users.findOne({ email }): 409 when an account with that email exists
findUser(h) ==
    /\ h \in 1..Len(handlers)
    /\ handlers[h].kind = "signup"
    /\ handlers[h].pc = "find"
    /\ handlers' = IF handlers[h].target \in db.users
                   THEN [handlers EXCEPT ![h].pc = "done", ![h].status = 409]
                   ELSE [handlers EXCEPT ![h].pc = "insert"]
    /\ UNCHANGED <<configVars, spanVars, phase, logVars, file, rejections, wrapVars,
                   resolverVars, logDir, module, db>>

\* bcrypt.hash, then users.insertOne: the unique index rejects a second
\* document with the same email, insertOne throws the duplicate key error
\* and the catch block answers 500
insertUser(h) ==
    /\ h \in 1..Len(handlers)
    /\ handlers[h].pc = "insert"
    /\ IF handlers[h].target \in db.users
       THEN /\ handlers' = [handlers EXCEPT ![h].pc = "done", ![h].status = 500]
            /\ db' = db
       ELSE /\ handlers' = [handlers EXCEPT ![h].pc = "done", ![h].status = 200]
            /\ db' = [db EXCEPT !.users = @ \cup {handlers[h].target}]
    /\ UNCHANGED <<configVars, spanVars, phase, logVars, file, rejections, wrapVars,
                   resolverVars, logDir, module>>

NextSignup ==
    \/ BeginSignup
    \/ \E h \in 1..Len(handlers) : findUser(h)
    \/ \E h \in 1..Len(handlers) : insertUser(h)

SpecSignup == InitRoutes /\ [][NextSignup]_vars

\* C30: once every signup request for an email has been answered, exactly
\* one of those that carried email and password has created the account
\* (answered ok) and every other one has been answered 409.
C30_OneCreatesOthersConflict_AsClaimed ==
    \A email \in Emails :
        LET reqs == {h \in 1..Len(handlers) :
                        /\ handlers[h].kind = "signup"
                        /\ handlers[h].target = email
                        /\ handlers[h].status # 400}
        IN  (reqs # {} /\ \A h \in reqs : handlers[h].pc = "done") =>
                /\ Cardinality({h \in reqs : handlers[h].status = 200}) = 1
                /\ \A h \in reqs : handlers[h].status \in {200, 409}

====
